---- MODULE Spec2Model ----
\* StandardScriptUpdater (updateAsync / validateAsync): the check-and-recopy of the
\* generated common/scripts files against the bundled templates.
EXTENDS Integers, Sequences, FiniteSets, TLC

\* ---------------------------------------------------------------- bounds

\* Longest descriptor list whose target files are drawn from every content class.
MaxScripts == 2
\* Length of the long descriptor list (longer than the concurrency limit); its
\* target files do not exist yet.
LongList == 11
\* Runs of the engine a caller performs one after the other.
MaxRuns == 2
\* Injected I/O failures (other than "does not exist") per run.
MaxFaults == 1
\* Longest content handed to _normalize on its own, and how often it is applied in turn.
MaxLen == 4
MaxApplications == 2

\* ---------------------------------------------------------------- text

\* A string is a sequence of characters; three whitespace characters and a few
\* printable ones are told apart.
SP == "SP"
CR == "CR"
LF == "LF"

IsWhitespace(c) == c \in {SP, CR, LF}

\* An optional value (string | undefined): <<>> is undefined, <<v>> holds v.
Undefined == <<>>
Some(v) == <<v>>

\* JavaScript truthiness of a string | undefined: undefined and "" are falsy.
TruthyUnlessUndefined(opt) == opt # Undefined
Truthy(opt) == opt # Undefined /\ opt[1] # <<>>

\* x.trimRight(): carriage returns and line feeds are whitespace too.
RECURSIVE trimRightSpacesOnly(_)
trimRightSpacesOnly(x) ==
    IF x = <<>> THEN <<>>
    ELSE IF x[Len(x)] = SP THEN trimRightSpacesOnly(SubSeq(x, 1, Len(x) - 1))
    ELSE x
trimRightOnce(x) ==
    IF x = <<>> THEN <<>>
    ELSE IF IsWhitespace(x[Len(x)]) THEN SubSeq(x, 1, Len(x) - 1)
    ELSE x
RECURSIVE trimRight(_)
trimRight(x) ==
    IF x = <<>> THEN <<>>
    ELSE IF IsWhitespace(x[Len(x)]) THEN trimRight(SubSeq(x, 1, Len(x) - 1))
    ELSE x

\* The first index at or after `from` where content holds c; 0 when there is none.
RECURSIVE indexOf(_, _, _)
indexOf(content, c, from) ==
    IF from > Len(content) THEN 0
    ELSE IF content[from] = c THEN from
    ELSE indexOf(content, c, from + 1)

\* content.split('\n'): always at least one element.
RECURSIVE split(_)
split(content) ==
    LET i == indexOf(content, LF, 1)
    IN  IF i = 0 THEN <<content>>
        ELSE <<SubSeq(content, 1, i - 1)>> \o split(SubSeq(content, i + 1, Len(content)))

\* lines.join('\n')
RECURSIVE join(_)
join(lines) ==
    IF lines = <<>> THEN <<>>
    ELSE IF Len(lines) = 1 THEN lines[1]
    ELSE lines[1] \o <<LF>> \o join(Tail(lines))

normalize(content) ==
    LET lines == split(content)
    IN  join([i \in 1..Len(lines) |-> trimRight(lines[i])])

\* ---------------------------------------------------------------- scripts

\* The header text, one letter standing for the printable text of each line.
HEADER_LINES_PREFIX == << <<"G">>, <<"/">> >>
HEADER_LINES_SUFFIX == << <<"/">>, <<"U">>, <<>> >>

\* Script names are 1, 2, ...; the descriptor list is a prefix of this catalogue.
headerLines(scriptName) ==
    IF scriptName % 2 = 1 THEN << <<"h">> >> ELSE << <<"h">>, <<"/">> >>

\* The bundled template of a script (scriptsFolderPath/scriptName).
sourceContent(scriptName) ==
    IF scriptName % 2 = 1 THEN <<"x", LF>> ELSE <<"x", SP, CR, LF, "y">>

getScripts(n) == [i \in 1..n |-> i]

\* _getExpectedFileDataAsync once the template is read: header and template joined
\* by line feeds, then normalized.
ExpectedFileData(scriptName) ==
    normalize(join(HEADER_LINES_PREFIX \o headerLines(scriptName) \o HEADER_LINES_SUFFIX
                       \o <<sourceContent(scriptName)>>))

\* The same, tabulated over the catalogue.
ExpectedTable == [s \in 1..(LongList + MaxScripts) |-> ExpectedFileData(s)]
getExpectedFileData(scriptName) == ExpectedTable[scriptName]

\* ---------------------------------------------------------------- target files

\* c with every line feed turned into carriage return + line feed.
RECURSIVE CrLf(_)
CrLf(c) ==
    IF c = <<>> THEN <<>>
    ELSE IF Head(c) = LF THEN <<CR, LF>> \o CrLf(Tail(c))
    ELSE <<Head(c)>> \o CrLf(Tail(c))

\* c with a space added at the end of its first and of its third line.
TrailingSpaces(c) ==
    LET lines == split(c)
    IN  join([i \in 1..Len(lines) |->
                 IF i \in {1, 3} THEN lines[i] \o <<SP>> ELSE lines[i]])

\* The contents that equal e up to trailing whitespace and line endings.
WhitespaceVariants(e) == {e, CrLf(e), TrailingSpaces(e), CrLf(TrailingSpaces(e))}

\* A content that differs from e in more than that: leading whitespace.
StaleVariant(e) == <<SP>> \o e

\* Contents that are empty or hold nothing but spaces and carriage returns.
BlankVariants == {<<>>, <<SP, CR>>}

\* What a target file may hold before the first run: nothing (it does not exist), a
\* blank content, the expected content as a checkout with CRLF line endings and
\* stray trailing spaces leaves it, or a stale content. (The expected content
\* itself is what a repair leaves behind for the next run.)
TargetChoices(scriptName) ==
    LET e == getExpectedFileData(scriptName)
    IN  {Undefined} \cup {Some(c) : c \in {CrLf(TrailingSpaces(e)), StaleVariant(e)}
                                        \cup BlankVariants}

\* ---------------------------------------------------------------- state

VARIABLES
    scripts,          \* the descriptor list of the caller (getScripts)
    dirState,         \* commonScriptsFolder: "absent", "dir", or "file" (a regular file is in the way)
    files,            \* target files: scriptName -> content | undefined (does not exist)
    runNo,            \* runs started so far
    throwInsteadOfCopy, \* the mode of the current run: TRUE validate, FALSE update
    pcMain,           \* updateAsync/validateAsync: "idle", "ensure", "forEach", "returned", "threw"
    outcome,          \* the error the run threw: "none", "IOFailure", "DriftDetected"
    anyChanges,       \* updateAsync's accumulator
    nextIndex,        \* forEachAsync: the next array index to hand to the callback
    tpc,              \* per callback: "pending", "readTarget", "getExpected1", "getExpected2",
                      \*               "write", "returned", "threw"
    targetNormalized, \* per callback: local of _updateScriptOrThrowAsync
    sourceNormalized, \* per callback: local of _updateScriptOrThrowAsync
    changed,          \* per callback: what _updateScriptOrThrowAsync returned (once tpc is "returned")
    terr,             \* per callback: what it threw ("none" before)
    notices,          \* per script: "Script is out of date" lines printed in this run
    faults,           \* I/O failures injected in this run
    filesAtStart,     \* history: files when the current run started
    dirAtStart,       \* history: dirState when the current run started
    ops,              \* history: per script, the file operations begun in this run
    writes,           \* history: per script, the writes completed in this run
    ensured,          \* history: ensureFolderAsync of this run: "none", "ok", "failed"
    prev,             \* history: the run before the current one
    failed,           \* history: per script, the file operations of this run that failed
                      \*          with an I/O error other than "does not exist"
    driftError,       \* history: per callback, the Error it created (lines 338-341), if any
    expectedCalls,    \* history: per callback, its calls of _getExpectedFileDataAsync
    unreadable,       \* the scripts whose bundled template cannot be read
    rawContent,       \* a content handed to _normalize on its own, if any
    normalized        \* the results of applying _normalize to it, and again to the result

vars == <<scripts, dirState, files, runNo, throwInsteadOfCopy, pcMain, outcome, anyChanges,
          nextIndex, tpc, targetNormalized, sourceNormalized, changed, terr, notices, faults,
          filesAtStart, dirAtStart, ops, writes, ensured, prev, failed, driftError,
          expectedCalls, unreadable, rawContent, normalized>>

taskVars == <<tpc, targetNormalized, sourceNormalized, changed, terr>>
envVars == <<unreadable, rawContent, normalized>>
histVars == <<filesAtStart, dirAtStart, prev, envVars>>
traceVars == <<failed, driftError, expectedCalls>>

Names == {scripts[i] : i \in 1..Len(scripts)}
Tasks == 1..Len(scripts)

\* The throwInsteadOfCopy argument of each entry point.
UPDATE == FALSE
VALIDATE == TRUE

\* The concurrency option handed to Async.forEachAsync.
ConcurrencyOmitted == LongList + 1
Concurrency == 10

InFlight == Cardinality({i \in Tasks : tpc[i] \in {"readTarget", "getExpected1", "getExpected2", "write"}})
Quiescent == InFlight = 0
Settled == pcMain \in {"returned", "threw"}

NoRun == [mode |-> "none", pc |-> "idle", anyChanges |-> FALSE]

\* At most one bundled template is unreadable (a packaging defect).
UnreadableChoices ==
    IF Len(scripts) > MaxScripts THEN {{}} ELSE {{}} \cup {{s} : s \in Names}

InitEngine ==
    /\ \E n \in (0..MaxScripts) \cup {LongList} : scripts = getScripts(n)
    /\ dirState \in {"absent", "dir", "file"}
    /\ IF dirState # "dir" \/ Len(scripts) > MaxScripts
         THEN files = [s \in Names |-> Undefined]
         ELSE /\ files \in [Names -> UNION {TargetChoices(s) : s \in Names}]
              /\ \A s \in Names : files[s] \in TargetChoices(s)
    /\ runNo = 0
    /\ throwInsteadOfCopy = FALSE
    /\ pcMain = "idle"
    /\ outcome = "none"
    /\ anyChanges = FALSE
    /\ nextIndex = 1
    /\ tpc = [i \in Tasks |-> "pending"]
    /\ targetNormalized = [i \in Tasks |-> Undefined]
    /\ sourceNormalized = [i \in Tasks |-> Undefined]
    /\ changed = [i \in Tasks |-> FALSE]
    /\ terr = [i \in Tasks |-> "none"]
    /\ notices = [s \in Names |-> 0]
    /\ faults = 0
    /\ filesAtStart = files
    /\ dirAtStart = dirState
    /\ ops = [s \in Names |-> {}]
    /\ writes = [s \in Names |-> 0]
    /\ ensured = "none"
    /\ prev = NoRun
    /\ failed = [s \in Names |-> {}]
    /\ driftError = [i \in Tasks |-> Undefined]
    /\ expectedCalls = [i \in Tasks |-> 0]
    /\ unreadable \in UnreadableChoices

Init ==
    /\ InitEngine
    /\ rawContent = Undefined
    /\ normalized = <<>>

\* ---------------------------------------------------------------- entry points

\* A caller starts a run once the run before it has ended and none of its file
\* operations is still pending. Every sequence of runs is explored for the short
\* lists; the long list, whose target files do not exist yet, is validated once.
CanStartRun(mode) ==
    /\ pcMain \in {"idle", "returned", "threw"}
    /\ Quiescent
    /\ runNo < MaxRuns
    /\ Len(scripts) > MaxScripts => runNo = 0 /\ mode = VALIDATE

BeginRun(mode, firstPc) ==
    /\ CanStartRun(mode)
    /\ runNo' = runNo + 1
    /\ throwInsteadOfCopy' = mode
    /\ pcMain' = firstPc
    /\ outcome' = "none"
    /\ anyChanges' = FALSE
    /\ nextIndex' = 1
    /\ tpc' = [i \in Tasks |-> "pending"]
    /\ targetNormalized' = [i \in Tasks |-> Undefined]
    /\ sourceNormalized' = [i \in Tasks |-> Undefined]
    /\ changed' = [i \in Tasks |-> FALSE]
    /\ terr' = [i \in Tasks |-> "none"]
    /\ notices' = [s \in Names |-> 0]
    /\ faults' = 0
    /\ filesAtStart' = files
    /\ dirAtStart' = dirState
    /\ ops' = [s \in Names |-> {}]
    /\ writes' = [s \in Names |-> 0]
    /\ ensured' = "none"
    /\ prev' = IF runNo = 0 THEN NoRun
               ELSE [mode |-> IF throwInsteadOfCopy THEN "validate" ELSE "update",
                     pc |-> pcMain, anyChanges |-> anyChanges]
    /\ failed' = [s \in Names |-> {}]
    /\ driftError' = [i \in Tasks |-> Undefined]
    /\ expectedCalls' = [i \in Tasks |-> 0]
    /\ UNCHANGED <<scripts, dirState, files, envVars>>

\* updateAsync: first awaits FileSystem.ensureFolderAsync.
updateAsyncWithoutEnsure == BeginRun(UPDATE, "forEach")
updateAsync == BeginRun(UPDATE, "ensure")

\* validateAsync: goes straight to Async.forEachAsync.
validateAsyncWithEnsure == BeginRun(VALIDATE, "ensure")
validateAsync == BeginRun(VALIDATE, "forEach")

\* Where updateAsync goes when ensureFolderAsync settles: a rejection propagates.
AfterEnsureIgnoringFailure(ok) == "forEach"
AfterEnsure(ok) == IF ok THEN "forEach" ELSE "threw"

\* FileSystem.ensureFolderAsync settles: it creates the folder (parents included) or
\* finds it; it fails when a regular file is in the way, or for an injected failure.
ensureFolderSettles ==
    /\ pcMain = "ensure"
    /\ \E ok \in BOOLEAN :
         /\ ok => dirState # "file"
         /\ ~ok => dirState = "file" \/ faults < MaxFaults
         /\ dirState' = IF ok THEN "dir" ELSE dirState
         /\ faults' = IF ~ok /\ dirState # "file" THEN faults + 1 ELSE faults
         /\ ensured' = IF ok THEN "ok" ELSE "failed"
         /\ pcMain' = AfterEnsure(ok)
         /\ outcome' = IF AfterEnsure(ok) = "threw" THEN "IOFailure" ELSE outcome
    /\ UNCHANGED <<scripts, files, runNo, throwInsteadOfCopy, anyChanges, nextIndex,
                   notices, ops, writes>>
    /\ UNCHANGED taskVars
    /\ UNCHANGED histVars
    /\ UNCHANGED traceVars

\* ---------------------------------------------------------------- Async.forEachAsync

\* One more callback may be started: the list is not exhausted, the promise has not
\* settled, and fewer than `concurrency` callbacks are in progress.
CanStart(i) ==
    /\ pcMain = "forEach"
    /\ i = nextIndex
    /\ i <= Len(scripts)
    /\ InFlight < Concurrency

\* The first rejection of a callback rejects forEachAsync, and with it the run;
\* callbacks already started keep running.
MainAfterThrow == IF pcMain = "forEach" THEN "threw" ELSE pcMain
OutcomeAfterThrow(kind) == IF pcMain = "forEach" THEN kind ELSE outcome

\* ---------------------------------------------------------------- _updateScriptOrThrowAsync

\* A step of the function: where it stands next, and what it did on the way.
Step(pc, err, result, notice, src, tn) ==
    [pc |-> pc, err |-> err, changed |-> result, notice |-> notice, src |-> src, tn |-> tn]

\* path.resolve(this._configuration.commonScriptsFolder, script.scriptName): the
\* target file of callback i, named here by its script.
targetFilePathOfFirstScript(i) == scripts[1]
targetFilePath(i) == scripts[i]

\* new Error('The standard files ... need to be updated ...'): the message and the
\* paths interpolated into it.
DriftErrorNamingFile(path) ==
    [text |-> "The standard files in the \"common/scripts\" folders need to be updated for this Rush version.  Please run \"rush update\" and commit the changes.",
     paths |-> <<path>>]
DriftError(path) ==
    [text |-> "The standard files in the \"common/scripts\" folders need to be updated for this Rush version.  Please run \"rush update\" and commit the changes.",
     paths |-> <<>>]

\* if (!filesAreSame) { ... }: throw in validate mode; otherwise print the notice and
\* go on to the write, fetching the expected content first if it is not there yet.
NotSameSilent(throw, src) ==
    IF throw THEN Step("threw", "DriftDetected", FALSE, FALSE, Undefined, Undefined)
    ELSE IF Truthy(src) THEN Step("write", "none", FALSE, FALSE, src, Undefined)
    ELSE Step("getExpected2", "none", FALSE, FALSE, src, Undefined)
NotSameRecomputes(throw, src) ==
    IF throw THEN Step("threw", "DriftDetected", FALSE, FALSE, Undefined, Undefined)
    ELSE Step("getExpected2", "none", FALSE, TRUE, src, Undefined)
NotSameAlwaysCopies(throw, src) ==
    IF Truthy(src) THEN Step("write", "none", FALSE, TRUE, src, Undefined)
    ELSE Step("getExpected2", "none", FALSE, TRUE, src, Undefined)
NotSame(throw, src) ==
    IF throw THEN Step("threw", "DriftDetected", FALSE, FALSE, Undefined, Undefined)
    ELSE IF Truthy(src) THEN Step("write", "none", FALSE, TRUE, src, Undefined)
    ELSE Step("getExpected2", "none", FALSE, TRUE, src, Undefined)

\* targetContent ? _normalize(targetContent) : undefined
TargetNormalizedRaw(targetContent) == targetContent
TargetNormalized(targetContent) ==
    IF Truthy(targetContent) THEN Some(normalize(targetContent[1])) ELSE Undefined

\* After the read of the target file: compare only when there is something to compare.
AfterReadComparesAlways(throw, targetContent) ==
    Step("getExpected1", "none", FALSE, FALSE, Undefined, TargetNormalized(targetContent))
AfterReadSkipsMissing(throw, targetContent) ==
    LET tn == TargetNormalized(targetContent)
    IN  IF Truthy(tn)
          THEN Step("getExpected1", "none", FALSE, FALSE, Undefined, tn)
          ELSE Step("returned", "none", FALSE, FALSE, Undefined, Undefined)
AfterRead(throw, targetContent) ==
    LET tn == TargetNormalized(targetContent)
    IN  IF Truthy(tn)
          THEN Step("getExpected1", "none", FALSE, FALSE, Undefined, tn)
          ELSE NotSame(throw, Undefined)

\* A rejected await that the function does not catch.
Failed == Step("threw", "IOFailure", FALSE, FALSE, Undefined, Undefined)

\* catch (e) { if (!FileSystem.isNotExistError(e)) throw e; }: only "does not exist"
\* leaves targetContent undefined.
AfterReadErrorSwallowed(throw, isNotExistError) == AfterRead(throw, Undefined)
AfterReadError(throw, isNotExistError) ==
    IF isNotExistError THEN AfterRead(throw, Undefined) ELSE Failed

\* sourceNormalized === targetNormalized
FilesAreSameInverted(source, target) == target # Some(source)
FilesAreSame(source, target) == target = Some(source)

\* After _getExpectedFileDataAsync at the comparison.
AfterExpected(throw, source, target) ==
    IF FilesAreSame(source, target)
      THEN Step("returned", "none", FALSE, FALSE, Undefined, Undefined)
      ELSE NotSame(throw, Some(source))

\* The data handed to FileSystem.writeFileAsync.
WriteDataNotNormalized(i) ==
    join(HEADER_LINES_PREFIX \o headerLines(scripts[i]) \o HEADER_LINES_SUFFIX
             \o <<sourceContent(scripts[i])>>)
WriteDataTemplateOnly(i) == sourceContent(scripts[i])
WriteData(i) == sourceNormalized[i][1]

\* anyChanges ||= changed
AccumulateLast(any, result) == result
Accumulate(any, result) == any \/ result

\* Apply a step of callback i.
Advance(i, st) ==
    /\ tpc' = [tpc EXCEPT ![i] = st.pc]
    /\ terr' = [terr EXCEPT ![i] = st.err]
    /\ changed' = [changed EXCEPT ![i] = st.changed]
    /\ sourceNormalized' = [sourceNormalized EXCEPT ![i] = st.src]
    /\ targetNormalized' = [targetNormalized EXCEPT ![i] = st.tn]
    /\ notices' = IF st.notice THEN [notices EXCEPT ![scripts[i]] = @ + 1] ELSE notices
    /\ ops' = [ops EXCEPT ![scripts[i]] =
                  @ \cup (IF st.notice THEN {"notice"} ELSE {})
                    \cup (IF st.pc \in {"getExpected1", "getExpected2"} THEN {"template"} ELSE {})
                    \cup (IF st.pc = "write" THEN {"write"} ELSE {})]
    /\ pcMain' = IF st.pc = "threw" THEN MainAfterThrow ELSE pcMain
    /\ outcome' = IF st.pc = "threw" THEN OutcomeAfterThrow(st.err) ELSE outcome
    /\ anyChanges' = IF st.pc = "returned" /\ ~throwInsteadOfCopy
                       THEN Accumulate(anyChanges, st.changed) ELSE anyChanges
    /\ driftError' = IF st.err = "DriftDetected"
                       THEN [driftError EXCEPT ![i] = Some(DriftError(targetFilePath(i)))]
                       ELSE driftError
    /\ expectedCalls' = IF st.pc \in {"getExpected1", "getExpected2"}
                          THEN [expectedCalls EXCEPT ![i] = @ + 1]
                          ELSE expectedCalls

\* forEachAsync hands the next script to the callback, which runs up to its first
\* await: the read of the target file.
startCallback(i) ==
    /\ CanStart(i)
    /\ nextIndex' = nextIndex + 1
    /\ tpc' = [tpc EXCEPT ![i] = "readTarget"]
    /\ ops' = [ops EXCEPT ![scripts[i]] = @ \cup {"read"}]
    /\ UNCHANGED <<scripts, dirState, files, runNo, throwInsteadOfCopy, pcMain, outcome,
                   anyChanges, targetNormalized, sourceNormalized, changed, terr, notices,
                   faults, writes, ensured>>
    /\ UNCHANGED histVars
    /\ UNCHANGED traceVars

\* FileSystem.readFileAsync(targetFilePath) settles with the content, with a
\* "does not exist" error (taken as no content), or with another error (rethrown).
readTargetSettles(i) ==
    /\ tpc[i] = "readTarget"
    /\ \/ /\ IF dirState = "dir" /\ files[targetFilePath(i)] # Undefined
               THEN Advance(i, AfterRead(throwInsteadOfCopy, files[targetFilePath(i)]))
               ELSE Advance(i, AfterReadError(throwInsteadOfCopy, TRUE))
          /\ faults' = faults
          /\ failed' = failed
       \/ /\ faults < MaxFaults
          /\ Len(scripts) <= MaxScripts
          /\ Advance(i, AfterReadError(throwInsteadOfCopy, FALSE))
          /\ faults' = faults + 1
          /\ failed' = [failed EXCEPT ![scripts[i]] = @ \cup {"read"}]
    /\ UNCHANGED <<scripts, dirState, files, runNo, throwInsteadOfCopy, nextIndex, writes,
                   ensured>>
    /\ UNCHANGED histVars

\* _getExpectedFileDataAsync settles at the comparison (line 330): it rejects when
\* the template cannot be read.
expectedSettles(i) ==
    /\ tpc[i] = "getExpected1"
    /\ IF scripts[i] \notin unreadable
         THEN /\ Advance(i, AfterExpected(throwInsteadOfCopy, getExpectedFileData(scripts[i]),
                                          targetNormalized[i]))
              /\ faults' = faults
              /\ failed' = failed
         ELSE /\ Advance(i, Failed)
              /\ faults' = faults + 1
              /\ failed' = [failed EXCEPT ![scripts[i]] = @ \cup {"template"}]
    /\ UNCHANGED <<scripts, dirState, files, runNo, throwInsteadOfCopy, nextIndex, writes,
                   ensured>>
    /\ UNCHANGED histVars

\* _getExpectedFileDataAsync settles before the write (line 344).
expectedForWriteSettles(i) ==
    /\ tpc[i] = "getExpected2"
    /\ IF scripts[i] \notin unreadable
         THEN /\ Advance(i, Step("write", "none", FALSE, FALSE,
                                 Some(getExpectedFileData(scripts[i])), Undefined))
              /\ faults' = faults
              /\ failed' = failed
         ELSE /\ Advance(i, Failed)
              /\ faults' = faults + 1
              /\ failed' = [failed EXCEPT ![scripts[i]] = @ \cup {"template"}]
    /\ UNCHANGED <<scripts, dirState, files, runNo, throwInsteadOfCopy, nextIndex, writes,
                   ensured>>
    /\ UNCHANGED histVars

\* FileSystem.writeFileAsync settles: the file is replaced, and the function returns
\* true; the write fails when the folder is not there, or for an injected failure.
writeSettles(i) ==
    /\ tpc[i] = "write"
    /\ \/ /\ dirState = "dir"
          /\ files' = [files EXCEPT ![targetFilePath(i)] = Some(WriteData(i))]
          /\ writes' = [writes EXCEPT ![targetFilePath(i)] = @ + 1]
          /\ Advance(i, Step("returned", "none", TRUE, FALSE, Undefined, Undefined))
          /\ faults' = faults
          /\ failed' = failed
       \/ /\ dirState # "dir" \/ (faults < MaxFaults /\ Len(scripts) <= MaxScripts)
          /\ Advance(i, Failed)
          /\ faults' = IF dirState = "dir" THEN faults + 1 ELSE faults
          /\ failed' = [failed EXCEPT ![scripts[i]] = @ \cup {"write"}]
          /\ UNCHANGED <<files, writes>>
    /\ UNCHANGED <<scripts, dirState, runNo, throwInsteadOfCopy, nextIndex, ensured>>
    /\ UNCHANGED histVars

\* forEachAsync resolves once every script was handed out and every callback has
\* returned; updateAsync then returns anyChanges, validateAsync returns.
forEachResolves ==
    /\ pcMain = "forEach"
    /\ nextIndex > Len(scripts)
    /\ \A i \in Tasks : tpc[i] = "returned"
    /\ pcMain' = "returned"
    /\ UNCHANGED <<scripts, dirState, files, runNo, throwInsteadOfCopy, outcome, anyChanges,
                   nextIndex, notices, faults, ops, writes, ensured>>
    /\ UNCHANGED taskVars
    /\ UNCHANGED histVars
    /\ UNCHANGED traceVars

Next ==
    \/ updateAsync
    \/ validateAsync
    \/ ensureFolderSettles
    \/ \E i \in Tasks : startCallback(i)
    \/ \E i \in Tasks : readTargetSettles(i)
    \/ \E i \in Tasks : expectedSettles(i)
    \/ \E i \in Tasks : expectedForWriteSettles(i)
    \/ \E i \in Tasks : writeSettles(i)
    \/ forEachResolves

Spec == Init /\ [][Next]_vars

\* ---------------------------------------------------------------- _normalize on its own

\* Every content of at most MaxLen characters over the three whitespace characters
\* and one printable character.
Contents == UNION {[1..n -> {SP, CR, LF, "x"}] : n \in 0..MaxLen}

InitNormalize ==
    /\ InitEngine
    /\ scripts = <<>>
    /\ dirState = "dir"
    /\ rawContent \in {Some(c) : c \in Contents}
    /\ normalized = <<>>

\* _normalize is applied to the content, then to its own result.
applyNormalize ==
    /\ rawContent # Undefined
    /\ Len(normalized) < MaxApplications
    /\ normalized' = Append(normalized,
                             normalize(IF normalized = <<>> THEN rawContent[1]
                                       ELSE normalized[Len(normalized)]))
    /\ UNCHANGED <<scripts, dirState, files, runNo, throwInsteadOfCopy, pcMain, outcome,
                   anyChanges, nextIndex, notices, faults, ops, writes, ensured, unreadable,
                   rawContent>>
    /\ UNCHANGED <<taskVars, traceVars, filesAtStart, dirAtStart, prev>>

NextNormalize == applyNormalize

SpecNormalize == InitNormalize /\ [][NextNormalize]_vars

\* ---------------------------------------------------------------- properties

Started == pcMain # "idle"

\* The expected content of each script, its normalized form, and the contents that
\* equal it up to trailing whitespace and line endings (tabulated once).
Catalogue == 1..(LongList + MaxScripts)
ExpectedOf == [s \in Catalogue |-> ExpectedFileData(s)]
NormalizedExpectedOf == [s \in Catalogue |-> normalize(ExpectedFileData(s))]
WhitespaceVariantsOf == [s \in Catalogue |-> WhitespaceVariants(ExpectedFileData(s))]
Expected(s) == ExpectedOf[s]

\* The content of the target file of s normalizes to the normalized expected content.
Matches(content, s) == content # Undefined /\ normalize(content[1]) = NormalizedExpectedOf[s]
AnyOp == \E s \in Names : ops[s] # {}

\* C1: in validate mode no target file is ever written: at every state of a
\* validate run every target file holds what it held when the run began, no write
\* was begun and none completed.
C1_ValidateNeverWrites ==
    (Started /\ throwInsteadOfCopy) =>
        /\ files = filesAtStart
        /\ \A s \in Names : writes[s] = 0 /\ "write" \notin ops[s]

\* A validate run that found a stale file in an existing folder and failed for it.
C1_Witness ==
    /\ throwInsteadOfCopy /\ pcMain = "threw" /\ outcome = "DriftDetected"
    /\ dirState = "dir"
    /\ \E i \in Tasks : /\ tpc[i] = "threw"
                        /\ files[scripts[i]] = Some(StaleVariant(Expected(scripts[i])))

\* C2: when a repair run has returned, the normalized content of every
\* descriptor's target file equals the normalized expected content.
C2_RepairLeavesExpected ==
    (~throwInsteadOfCopy /\ pcMain = "returned") =>
        \A s \in Names : Matches(files[s], s)

\* A repair run that returned after rewriting a stale file and creating a missing one.
C2_Witness ==
    /\ ~throwInsteadOfCopy /\ pcMain = "returned" /\ Len(scripts) = 2
    /\ filesAtStart[1] = Some(StaleVariant(Expected(1)))
    /\ filesAtStart[2] = Undefined
    /\ writes[1] = 1 /\ writes[2] = 1

\* C3: a repair run that follows a successful repair run, and meets no I/O failure,
\* begins no write, leaves every file as it is, and returns changed = false.
C3_RepairIsIdempotent ==
    (/\ Started /\ ~throwInsteadOfCopy
     /\ prev.mode = "update" /\ prev.pc = "returned"
     /\ faults = 0 /\ ensured # "failed") =>
        /\ \A s \in Names : writes[s] = 0 /\ "write" \notin ops[s]
        /\ files = filesAtStart
        /\ ~anyChanges
        /\ pcMain # "threw"

\* The second of two repair runs has returned, the first one having changed files.
C3_Witness ==
    /\ ~throwInsteadOfCopy /\ pcMain = "returned" /\ ~anyChanges
    /\ prev.mode = "update" /\ prev.pc = "returned" /\ prev.anyChanges
    /\ Len(scripts) = 2

\* C4: with no I/O failure, a validate run fails with the drift error exactly when
\* some target file is absent or its normalized content differs from the normalized
\* expected content; otherwise it returns without error.
C4_ValidateFailsIffDrift ==
    (throwInsteadOfCopy /\ Settled /\ faults = 0) =>
        /\ (pcMain = "threw" /\ outcome = "DriftDetected")
              <=> (\E s \in Names : dirState # "dir" \/ ~Matches(files[s], s))
        /\ pcMain = "returned" => outcome = "none"

\* A validate run over two matching files (one of them with CRLF line endings and
\* trailing spaces) that returned.
C4_Witness ==
    /\ throwInsteadOfCopy /\ pcMain = "returned" /\ Len(scripts) = 2
    /\ files[1] = Some(CrLf(TrailingSpaces(Expected(1))))
    /\ files[2] = Some(Expected(2))

\* C5: a target file that equals the expected content up to trailing whitespace and
\* line endings raises no drift error, yields changed = false, is not rewritten and
\* keeps its raw content, in both modes.
C5_WhitespaceDriftTolerated ==
    \A i \in Tasks :
        (/\ Started /\ dirAtStart = "dir"
         /\ filesAtStart[scripts[i]] # Undefined
         /\ filesAtStart[scripts[i]][1] \in WhitespaceVariantsOf[scripts[i]]) =>
            /\ files[scripts[i]] = filesAtStart[scripts[i]]
            /\ writes[scripts[i]] = 0
            /\ ops[scripts[i]] \subseteq {"read", "template"}
            /\ terr[i] # "DriftDetected"
            /\ tpc[i] = "returned" => ~changed[i]

\* A validate run has returned after a repair run that returned, and the file still
\* has its carriage returns and trailing spaces.
C5_Witness ==
    /\ throwInsteadOfCopy /\ pcMain = "returned"
    /\ prev.mode = "update" /\ prev.pc = "returned"
    /\ Len(scripts) >= 1
    /\ files[1] = Some(CrLf(TrailingSpaces(Expected(1))))
    /\ files[1] # Some(Expected(1))

\* C6: for a target file that is absent, repair mode creates it with exactly the
\* expected (normalized) content and reports a change; validate mode throws the
\* drift error for it, begins no write, and the file stays absent.
C6_AbsentTargetHandled ==
    \A i \in Tasks :
        (Started /\ (dirAtStart # "dir" \/ filesAtStart[scripts[i]] = Undefined)) =>
            IF throwInsteadOfCopy
              THEN /\ files[scripts[i]] = Undefined
                   /\ "write" \notin ops[scripts[i]]
                   /\ tpc[i] # "returned"
                   /\ (tpc[i] = "threw" /\ terr[i] # "IOFailure") => terr[i] = "DriftDetected"
                   /\ terr[i] = "DriftDetected" => pcMain = "threw"
              ELSE /\ files[scripts[i]] \in {Undefined, Some(NormalizedExpectedOf[scripts[i]])}
                   /\ tpc[i] = "returned" =>
                        /\ files[scripts[i]] = Some(NormalizedExpectedOf[scripts[i]])
                        /\ changed[i]
                        /\ notices[scripts[i]] = 1

\* A repair run created the missing file of a missing folder.
C6_Witness ==
    /\ ~throwInsteadOfCopy /\ dirAtStart = "absent"
    /\ \E i \in Tasks : tpc[i] = "returned" /\ files[scripts[i]] = Some(Expected(scripts[i]))

C9_EnsureFailureAborts ==
    ensured = "failed" =>
        /\ pcMain = "threw" /\ outcome = "IOFailure"
        /\ nextIndex = 1
        /\ \A i \in Tasks : tpc[i] = "pending"
        /\ \A s \in Names : ops[s] = {} /\ notices[s] = 0 /\ writes[s] = 0
        /\ files = filesAtStart

\* A repair run over two scripts failed because a regular file is in the folder's place.
C9_Witness ==
    ensured = "failed" /\ dirState = "file" /\ Len(scripts) = 2 /\ pcMain = "threw"

C11_ReadFailurePropagates ==
    \A i \in Tasks :
        "read" \in failed[scripts[i]] =>
            /\ tpc[i] = "threw" /\ terr[i] = "IOFailure"
            /\ driftError[i] = Undefined
            /\ ops[scripts[i]] = {"read"}
            /\ notices[scripts[i]] = 0 /\ writes[scripts[i]] = 0
            /\ expectedCalls[i] = 0
            /\ files[scripts[i]] = filesAtStart[scripts[i]]
            /\ pcMain = "threw"
            /\ outcome # "IOFailure" => \E j \in Tasks \ {i} : terr[j] = "DriftDetected"

\* The read of an existing stale file failed in a repair run, which threw the I/O failure.
C11_Witness ==
    /\ ~throwInsteadOfCopy /\ pcMain = "threw" /\ outcome = "IOFailure"
    /\ dirState = "dir"
    /\ \E i \in Tasks : /\ "read" \in failed[scripts[i]]
                        /\ files[scripts[i]] = Some(StaleVariant(Expected(scripts[i])))

\* The target file of s held nothing to compare when the run started: it did not
\* exist, or was empty or blank.
NoContentAtStart(s) ==
    \/ dirAtStart # "dir"
    \/ filesAtStart[s] = Undefined
    \/ filesAtStart[s][1] \in BlankVariants

\* C12 as stated: a script whose template cannot be read makes its callback fail
\* with the I/O failure and never with the drift error, in both modes and whatever
\* its target file holds.
C12_UnreadableTemplateIsIOFailure ==
    \A i \in Tasks :
        (Started /\ scripts[i] \in unreadable) =>
            /\ tpc[i] # "returned"
            /\ tpc[i] = "threw" => (terr[i] = "IOFailure" /\ driftError[i] = Undefined)

\* C12, amended: a callback whose template cannot be read never returns and never
\* writes. Unless the read of its target file failed, it throws the I/O failure of
\* the template read, and no drift error, when the target file has content (in both
\* modes) or when the mode is repair; in validate mode with an absent, empty or blank
\* target file it throws the drift error without reading the template. Either way
\* the run throws.
C12_UnreadableTemplate ==
    \A i \in Tasks :
        (Started /\ scripts[i] \in unreadable) =>
            /\ tpc[i] # "returned"
            /\ writes[scripts[i]] = 0
            /\ files[scripts[i]] = filesAtStart[scripts[i]]
            /\ (tpc[i] = "threw" /\ "read" \notin failed[scripts[i]]) =>
                   IF throwInsteadOfCopy /\ NoContentAtStart(scripts[i])
                     THEN /\ terr[i] = "DriftDetected"
                          /\ expectedCalls[i] = 0
                          /\ failed[scripts[i]] = {}
                     ELSE /\ terr[i] = "IOFailure"
                          /\ driftError[i] = Undefined
                          /\ failed[scripts[i]] = {"template"}
                          /\ expectedCalls[i] = 1
            /\ tpc[i] = "threw" => pcMain = "threw"

\* A validate run over a file that matches up to whitespace threw the I/O failure,
\* the template of that file being unreadable.
C12_Witness ==
    /\ throwInsteadOfCopy /\ pcMain = "threw" /\ outcome = "IOFailure"
    /\ \E i \in Tasks :
         /\ scripts[i] \in unreadable
         /\ "template" \in failed[scripts[i]]
         /\ files[scripts[i]] = Some(CrLf(TrailingSpaces(Expected(scripts[i]))))

\* C13 as stated: the drift error created for a script names the target file of
\* that script, so that the errors of two different stale files differ.
C13_DriftErrorNamesFile ==
    \A i \in Tasks :
        terr[i] = "DriftDetected" =>
            /\ driftError[i] # Undefined
            /\ \E k \in 1..Len(driftError[i][1].paths) :
                   driftError[i][1].paths[k] = targetFilePath(i)

\* C13, amended: every drift error is created in validate mode and carries the same
\* fixed message, into which no path is interpolated; the errors created for two
\* different scripts are equal.
C13_DriftErrorIsGeneric ==
    /\ \A i \in Tasks :
          /\ terr[i] = "DriftDetected" =>
                /\ throwInsteadOfCopy
                /\ driftError[i] # Undefined
                /\ driftError[i][1].paths = <<>>
          /\ driftError[i] # Undefined => terr[i] = "DriftDetected"
    /\ \A i, j \in Tasks :
          (terr[i] = "DriftDetected" /\ terr[j] = "DriftDetected") =>
              driftError[i] = driftError[j]

\* A validate run over two stale files, both callbacks having thrown the drift error.
C13_Witness ==
    /\ throwInsteadOfCopy /\ pcMain = "threw" /\ outcome = "DriftDetected"
    /\ Len(scripts) = 2
    /\ \A i \in Tasks :
         /\ terr[i] = "DriftDetected"
         /\ files[scripts[i]] = Some(StaleVariant(Expected(scripts[i])))

\* C14: in repair mode the accumulator is, at every state, the logical OR of the
\* results of the callbacks that have returned, whatever their order; a callback's
\* result is true exactly when it wrote its file, so a run that returned reports
\* changed = true exactly when at least one target file was written.
C14_ChangedIsOrOfResults ==
    (Started /\ ~throwInsteadOfCopy) =>
        /\ anyChanges <=> (\E i \in Tasks : tpc[i] = "returned" /\ changed[i])
        /\ \A i \in Tasks :
              tpc[i] = "returned" => (changed[i] <=> writes[scripts[i]] = 1)
        /\ pcMain = "returned" => (anyChanges <=> (\E s \in Names : writes[s] > 0))

\* A repair run over two scripts returned changed = true, having written the first
\* file and left the second, which matched.
C14_Witness ==
    /\ ~throwInsteadOfCopy /\ pcMain = "returned" /\ anyChanges
    /\ Len(scripts) = 2
    /\ writes[1] = 1 /\ writes[2] = 0
    /\ changed[1] /\ ~changed[2]

\* x is y with nothing but whitespace removed from its end, and does not itself end
\* in whitespace.
IsRightTrimOf(x, y) ==
    /\ Len(x) <= Len(y)
    /\ x = SubSeq(y, 1, Len(x))
    /\ \A k \in (Len(x) + 1)..Len(y) : IsWhitespace(y[k])
    /\ x = <<>> \/ ~IsWhitespace(x[Len(x)])

\* C15: normalizing is idempotent: applying _normalize to its own result gives that
\* result again, for every content; the result has the lines of the content, as
\* separated by line feeds, each without its trailing whitespace (carriage returns
\* included) and with its leading whitespace.
C15_NormalizeIdempotent ==
    /\ \A k \in 2..Len(normalized) : normalized[k] = normalized[1]
    /\ Len(normalized) >= 1 =>
          LET before == split(rawContent[1])
              after == split(normalized[1])
          IN  /\ Len(after) = Len(before)
              /\ \A k \in 1..Len(before) : IsRightTrimOf(after[k], before[k])

\* A line with a leading space and with a space and a carriage return at its end
\* was normalized twice.
C15_Witness ==
    /\ rawContent = Some(<<SP, "x", SP, CR>>)
    /\ Len(normalized) = 2
    /\ normalized[1] = <<SP, "x">>

C17_NoPartialContent ==
    /\ (Started /\ ~throwInsteadOfCopy) =>
          \A s \in Names :
              files[s] \in {filesAtStart[s], Some(NormalizedExpectedOf[s])}
    /\ (~throwInsteadOfCopy /\ pcMain = "returned"
          /\ prev.mode = "update" /\ prev.pc = "threw") =>
          \A s \in Names : Matches(files[s], s)

\* A repair run returned after an aborted repair run: the aborted run had rewritten
\* the first file and left the second one stale, and this run rewrote the second.
C17_Witness ==
    /\ ~throwInsteadOfCopy /\ pcMain = "returned" /\ Len(scripts) = 2
    /\ prev.mode = "update" /\ prev.pc = "threw"
    /\ filesAtStart[1] = Some(Expected(1))
    /\ filesAtStart[2] = Some(StaleVariant(Expected(2)))
    /\ writes[1] = 0 /\ writes[2] = 1
    /\ files[2] = Some(Expected(2))

\* C18: within one call of _updateScriptOrThrowAsync the expected content is
\* computed at most once: for the comparison only when the target file has content;
\* the write then uses that value; it is computed before the write only when the
\* target file had no content (repair mode); and not at all in validate mode when
\* the target file has no content.
C18_ExpectedComputedAtMostOnce ==
    \A i \in Tasks :
        /\ expectedCalls[i] <= 1
        /\ expectedCalls[i] = 1 <=> "template" \in ops[scripts[i]]
        /\ tpc[i] = "getExpected1" => Truthy(targetNormalized[i])
        /\ tpc[i] = "getExpected2" =>
              (~throwInsteadOfCopy /\ NoContentAtStart(scripts[i]))
        /\ tpc[i] = "write" =>
              /\ expectedCalls[i] = 1
              /\ sourceNormalized[i] = Some(ExpectedOf[scripts[i]])
        /\ tpc[i] = "returned" => expectedCalls[i] = 1
        /\ (Started /\ throwInsteadOfCopy /\ NoContentAtStart(scripts[i])) =>
              expectedCalls[i] = 0

\* In a repair run the comparison of a stale file has failed and the write is
\* pending, the expected content having been computed once.
C18_Witness ==
    /\ ~throwInsteadOfCopy
    /\ \E i \in Tasks :
         /\ tpc[i] = "write"
         /\ filesAtStart[scripts[i]] = Some(StaleVariant(Expected(scripts[i])))
         /\ expectedCalls[i] = 1
         /\ notices[scripts[i]] = 1

\* What a repair run that meets no failure leaves in the target file of s, and
\* whether it rewrites it: a function of the state at the start of the run.
NeedsRewriteAtStart(s) == dirAtStart # "dir" \/ ~Matches(filesAtStart[s], s)
FinalContent(s) ==
    IF NeedsRewriteAtStart(s) THEN Some(NormalizedExpectedOf[s]) ELSE filesAtStart[s]

\* C19: the result of a repair run does not depend on the order in which the file
\* operations settle: a target file differs from what it held at the start of the
\* run only once the callback of its own script has written it (once), and every
\* repair run that returned has left, in every file, the content determined by the
\* state at the start of the run, and reports the changed value determined by it.
C19_ScheduleIndependent ==
    (Started /\ ~throwInsteadOfCopy) =>
        /\ \A i \in Tasks :
              /\ writes[scripts[i]] <= 1
              /\ files[scripts[i]] # filesAtStart[scripts[i]] =>
                    (tpc[i] = "returned" /\ changed[i] /\ writes[scripts[i]] = 1)
        /\ pcMain = "returned" =>
              /\ \A s \in Names : files[s] = FinalContent(s)
              /\ anyChanges <=> (\E s \in Names : NeedsRewriteAtStart(s))

\* A repair run over a blank file and a file matching up to whitespace returned,
\* having rewritten the first only.
C19_Witness ==
    /\ ~throwInsteadOfCopy /\ pcMain = "returned" /\ Len(scripts) = 2
    /\ filesAtStart[1] = Some(<<SP, CR>>)
    /\ filesAtStart[2] = Some(CrLf(TrailingSpaces(Expected(2))))
    /\ files[1] = Some(Expected(1))
    /\ files[2] = filesAtStart[2]
    /\ anyChanges

\* C20: a target file that exists and is empty, or holds only spaces and carriage
\* returns, is handled like an absent one: it is never compared; validate mode
\* throws the drift error for it without reading the template and leaves it as it
\* is; repair mode overwrites it with exactly the normalized expected content and
\* reports a change.
C20_BlankTargetLikeAbsent ==
    \A i \in Tasks :
        (/\ Started /\ dirAtStart = "dir"
         /\ filesAtStart[scripts[i]] # Undefined
         /\ filesAtStart[scripts[i]][1] \in BlankVariants) =>
            /\ tpc[i] # "getExpected1"
            /\ IF throwInsteadOfCopy
                 THEN /\ expectedCalls[i] = 0
                      /\ files[scripts[i]] = filesAtStart[scripts[i]]
                      /\ tpc[i] # "returned"
                      /\ (tpc[i] = "threw" /\ "read" \notin failed[scripts[i]]) =>
                             (terr[i] = "DriftDetected" /\ pcMain = "threw")
                 ELSE /\ files[scripts[i]] \in
                             {filesAtStart[scripts[i]], Some(NormalizedExpectedOf[scripts[i]])}
                      /\ tpc[i] = "returned" =>
                            /\ files[scripts[i]] = Some(NormalizedExpectedOf[scripts[i]])
                            /\ changed[i]
                            /\ anyChanges
                            /\ notices[scripts[i]] = 1 /\ writes[scripts[i]] = 1

\* A validate run threw the drift error for a file holding a space and a carriage
\* return, without reading its template.
C20_Witness ==
    /\ throwInsteadOfCopy /\ pcMain = "threw" /\ outcome = "DriftDetected"
    /\ dirState = "dir"
    /\ \E i \in Tasks :
         /\ files[scripts[i]] = Some(<<SP, CR>>)
         /\ terr[i] = "DriftDetected"
         /\ ops[scripts[i]] = {"read"}

====
